---------------------------- MODULE Spec2Model ----------------------------
(***************************************************************************)
(* The to-do list application in its two revisions:                        *)
(*   "memory"  src/app/index.tsx        tasks live in component state only *)
(*   "sqlite"  src/unnamed/part_000     tasks are persisted through ./db   *)
(* One behaviour runs one revision (app is fixed by Init).  The data       *)
(* access module ./db is not among the sources; its four operations are    *)
(* modelled from the specification's section 4.1.                          *)
(*                                                                         *)
(* Encodings.  A text is a sequence of characters.  An id is a string in   *)
(* the code; it is encoded as an integer: the decimal strings '1', '2' and *)
(* Date.now().toString() as the number they spell, a generated UUID as a   *)
(* negative number (a UUID never spells a number).  A Date is encoded as   *)
(* its millisecond value.                                                  *)
(***************************************************************************)
EXTENDS Integers, Sequences, FiniteSets, TLC

\* Bounds of the model.
MaxOps == 2        \* persistence operations in flight at once
MaxClock == 3      \* gestures of the user that start a persistence call
MaxTodos == 4      \* tasks in the in-memory collection when a submission is accepted
MaxOpens == 2      \* times the database is opened (the provider mounts)

VARIABLES
  app,        \* which revision runs: "memory" | "sqlite"
  engine,     \* argument order in which the engine's sort calls the comparator
  opens,      \* number of times SQLiteProvider has opened the database
  store,      \* todos.db: [user_version, hasTable, rows]
  uuids,      \* number of UUIDs generated so far
  now,        \* the clock, in milliseconds
  todos,      \* useState<TodoItem[]>
  dbError,    \* useState<string | null>
  filter,     \* useState<FilterOptions> / useState<FilterType>
  text,       \* AddTodoForm's useState("")
  displayed,  \* the array handed to FlatList as data
  ops,        \* async calls of load / addTodo / toggleTodo that have not returned
  last        \* history: the handler that ran or returned most recently

vars == <<app, engine, opens, store, uuids, now, todos, dbError, filter, text,
          displayed, ops, last>>

NULL == "null"

\* The texts a user types in the model: empty, blank, and one that is not
\* blank but starts with a blank.
Inputs == { <<>>, <<" ">>, <<" ", "a">> }

Range(s) == { s[k] : k \in DOMAIN s }

RemoveAt(s, i) == SubSeq(s, 1, i - 1) \o SubSeq(s, i + 1, Len(s))

-----------------------------------------------------------------------------
(* String.prototype.trim and the guard of handlePress *)

RECURSIVE trimStart(_)
trimStart(s) == IF s # <<>> /\ Head(s) = " " THEN trimStart(Tail(s)) ELSE s

RECURSIVE trimEnd(_)
trimEnd(s) ==
  IF s # <<>> /\ s[Len(s)] = " " THEN trimEnd(SubSeq(s, 1, Len(s) - 1)) ELSE s

trim(s) == trimEnd(trimStart(s))

\* the guard this bug would leave: the text is tested without being trimmed
handlePressReturnsEarly_untrimmed(t) == Len(t) = 0

\* if (text.trim().length === 0) return;
handlePressReturnsEarly(t) == Len(trim(t)) = 0

-----------------------------------------------------------------------------
(* Array.prototype.sort and the two comparators *)

\* this bug would drop the equality test
compareDone_noEqual(a, b) == IF a.done THEN 1 ELSE -1

\* index.tsx: (a, b) => a.done === b.done ? 0 : a.done ? 1 : -1
compareDone(a, b) == IF a.done = b.done THEN 0 ELSE IF a.done THEN 1 ELSE -1

\* part_000: aDate === bDate ? 0 : aDate < bDate ? 1 : -1, on Date objects.
\* === on two objects is identity, and every task of an array carries a Date
\* of its own (a missing one is replaced by a fresh new Date(0)), so for two
\* elements of the array the first test is false.
compareCreatedAt(a, b) == IF a.createdAt < b.createdAt THEN 1 ELSE -1

compareFn(key, a, b) ==
  IF key = "done" THEN compareDone(a, b) ELSE compareCreatedAt(a, b)

\* Whether the sort places x before e, an element that precedes x in the
\* input.  A stable sort moves x before e only when the comparator orders it
\* so; engines differ in the argument order of the call, which shows only
\* when the comparator is inconsistent (compareCreatedAt on equal dates).
placesBefore(key, x, e) ==
  IF engine = "prev,next" THEN compareFn(key, e, x) > 0
                          ELSE compareFn(key, x, e) < 0

RECURSIVE insert(_, _, _)
insert(s, x, key) ==
  IF s = <<>> THEN <<x>>
  ELSE LET e == s[Len(s)]
       IN  IF placesBefore(key, x, e)
           THEN Append(insert(SubSeq(s, 1, Len(s) - 1), x, key), e)
           ELSE Append(s, x)

RECURSIVE sort(_, _)
sort(s, key) ==
  IF s = <<>> THEN <<>>
  ELSE insert(sort(SubSeq(s, 1, Len(s) - 1), key), s[Len(s)], key)

-----------------------------------------------------------------------------
(* Filtering and rendering *)

\* this bug would swap the two predicates
keeps_swapped(f, todo) ==
  CASE f = "pending" -> todo.done
    [] f \in {"done", "completed"} -> ~todo.done
    [] OTHER -> TRUE

\* the predicate of todos.filter in each revision
keeps(f, todo) ==
  CASE f = "pending" -> ~todo.done
    [] f \in {"done", "completed"} -> todo.done
    [] OTHER -> TRUE

filterTodos(s, f) == LET test(todo) == keeps(f, todo) IN SelectSeq(s, test)

\* index.tsx getFilteredTodos: "pending" and "completed" build a new array,
\* any other mode returns the state array itself; FlatList then gets
\* filteredTodos.sort(...), which sorts in place, so under "all" the state
\* array is reordered by the render.
renderMemory(ts, f) ==
  LET shown == sort(filterTodos(ts, f), "done")
  IN  [todos |-> IF f \in {"pending", "completed"} THEN ts ELSE shown,
       displayed |-> shown]

\* part_000 filteredTodos: todos.filter(...) is always a new array, which is
\* then sorted newest first.
renderSqlite(ts, f) ==
  [todos |-> ts, displayed |-> sort(filterTodos(ts, f), "createdAt")]

render(ts, f) == IF app = "memory" THEN renderMemory(ts, f) ELSE renderSqlite(ts, f)

-----------------------------------------------------------------------------
(* ./db, from the specification (section 4.1) *)

DATABASE_VERSION == 1

EmptyFile == [user_version |-> 0, hasTable |-> FALSE, rows |-> <<>>]

\* this bug would rebuild the table on every open
migrateDB_recreate(db) ==
  [user_version |-> DATABASE_VERSION, hasTable |-> TRUE, rows |-> <<>>]

\* Below the target version: CREATE TABLE IF NOT EXISTS, then write the
\* version.  At the target version: nothing.
migrateDB(db) ==
  IF db.user_version < DATABASE_VERSION
  THEN [user_version |-> DATABASE_VERSION, hasTable |-> TRUE, rows |-> db.rows]
  ELSE db

addTodoToDB(db, t, id, at) ==
  [db EXCEPT !.rows = Append(@, [id |-> id, text |-> t, done |-> FALSE,
                                 createdAt |-> at])]

getAllTodos(db) == db.rows

toggleTodoStatus(db, id) ==
  [db EXCEPT !.rows = [k \in DOMAIN @ |->
      IF @[k].id = id THEN [@[k] EXCEPT !.done = ~@] ELSE @[k]]]

-----------------------------------------------------------------------------
(* The state updates of TodoList and Index *)

\* load's catch block: the two example tasks
Placeholders(at) ==
  << [id |-> 1, text |-> <<"Exemplo de tarefa 1">>, done |-> FALSE, createdAt |-> at],
     [id |-> 2, text |-> <<"Exemplo de tarefa concluida">>, done |-> TRUE, createdAt |-> at] >>

\* Index's initial state: three sample tasks with random UUIDs
Samples ==
  << [id |-> -1, value |-> <<"Sample Todo">>, done |-> FALSE],
     [id |-> -2, value |-> <<"Sample Todo 2">>, done |-> TRUE],
     [id |-> -3, value |-> <<"Sample Todo 3">>, done |-> FALSE] >>

\* this bug would keep what is on screen and add the rows read to it
refreshed_merged(prev, result) == prev \o result

\* setTodos(result) after a successful write and read-all
refreshed(prev, result) == result

\* this bug would build the new list from the new task alone
addFallback_dropsPrev(prev, t, at) ==
  << [id |-> at, text |-> t, done |-> FALSE, createdAt |-> at] >>

\* addTodo's catch block: setTodos(prev => [...prev, newTodo]) with
\* id: Date.now().toString() and createdAt: new Date()
addFallback(prev, t, at) ==
  Append(prev, [id |-> at, text |-> t, done |-> FALSE, createdAt |-> at])

\* this bug would remove the task instead of flipping it
toggleMap_removes(prev, id) == LET other(todo) == todo.id # id IN SelectSeq(prev, other)

\* this bug would mark the task done instead of flipping it
toggleMap_setsDone(prev, id) ==
  [k \in DOMAIN prev |->
      IF prev[k].id = id THEN [prev[k] EXCEPT !.done = TRUE] ELSE prev[k]]

\* prev.map(todo => todo.id === id ? { ...todo, done: !todo.done } : todo),
\* in toggleTodo's catch block and in Index.toggleTodo
toggleMap(prev, id) ==
  [k \in DOMAIN prev |->
      IF prev[k].id = id THEN [prev[k] EXCEPT !.done = ~@] ELSE prev[k]]

\* Index.addTodo: [...todos, { id: crypto.randomUUID(), value: text, done: false }]
addTodoMemory(prev, t, id) == Append(prev, [id |-> id, value |-> t, done |-> FALSE])

-----------------------------------------------------------------------------
(* History *)

NoEvent == [ev |-> "none", id |-> 0, was |-> "none", alone |-> FALSE,
            ok |-> FALSE, sync |-> FALSE, after |-> "none"]

Event(e) == [NoEvent EXCEPT !.ev = e]

\* what the call that returns leaves in the history
\* op is a toggle of the id whose toggle returned last, and no other call
\* was in flight from the start of that one to now
inARow(op) ==
  /\ op.kind = "toggle" /\ op.alone
  /\ last.ev = "toggle" /\ last.alone /\ last.id = op.id

Returned(op, ok) ==
  [ev |-> op.kind, id |-> IF op.kind = "toggle" THEN op.id ELSE 0, was |-> op.was,
   alone |-> op.alone, ok |-> ok, sync |-> op.sync0,
   after |-> IF inARow(op) THEN (IF last.ok THEN "ok" ELSE "thrown") ELSE "none"]

shown(b) == IF b THEN "true" ELSE "false"

\* The history of a call (n0, sync0, was: what the list held and showed when
\* it started) is kept while the call has the store to itself.
overlapped(op) == [op EXCEPT !.alone = FALSE, !.n0 = 0, !.sync0 = FALSE, !.was = "none"]

\* a call that starts: the calls in flight are no longer alone, nor is it
started(op) == Append([k \in DOMAIN ops |-> overlapped(ops[k])],
                      IF ops = <<>> THEN op ELSE overlapped(op))

NewOp(kind, pc, t, id, was, sync0) ==
  [kind |-> kind, pc |-> pc, text |-> t, id |-> id, result |-> <<>>,
   alone |-> TRUE, n0 |-> IF kind = "add" THEN Len(todos) ELSE 0,
   sync0 |-> sync0, was |-> was]

addsInFlight == Cardinality({k \in DOMAIN ops : ops[k].kind = "add"})

running == app = "memory" \/ opens > 0

-----------------------------------------------------------------------------
Init ==
  /\ app \in {"memory", "sqlite"}
  /\ engine \in {"prev,next", "next,prev"}
  /\ opens = 0
  /\ store = EmptyFile
  /\ uuids = IF app = "memory" THEN Len(Samples) ELSE 0
  \* the clock reads later than 1970-01-01T00:00:00.002Z: its decimal
  \* rendering is not the id of a placeholder
  /\ now = Len(Placeholders(0)) + 1
  /\ todos = IF app = "memory" THEN renderMemory(Samples, "all").todos ELSE <<>>
  /\ dbError = NULL
  /\ filter = "all"
  /\ text = <<>>
  /\ displayed = IF app = "memory" THEN renderMemory(Samples, "all").displayed ELSE <<>>
  /\ ops = <<>>
  /\ last = NoEvent

\* SQLiteProvider mounts: onInit={migrateDB}, then TodoList mounts with its
\* initial state and its effect calls load().
OpenDatabase ==
  /\ app = "sqlite"
  /\ opens < MaxOpens
  /\ ops = <<>>
  /\ opens' = opens + 1
  /\ store' = migrateDB(store)
  /\ todos' = <<>>
  /\ dbError' = NULL
  /\ filter' = "all"
  /\ text' = <<>>
  /\ displayed' = <<>>
  /\ ops' = << NewOp("load", "read", <<>>, 0, "none", FALSE) >>
  /\ last' = Event("open")
  /\ UNCHANGED <<app, engine, uuids, now>>

\* onChangeText={setText}
SetText(t) ==
  /\ running
  /\ t # text
  /\ text' = t
  /\ UNCHANGED <<app, engine, opens, store, uuids, now, todos, dbError, filter,
                 displayed, ops, last>>

\* a filter button: setFilter / setCurrentFilter, and the render it causes
SetFilter(f) ==
  /\ running
  /\ f # filter
  /\ f \in (IF app = "memory" THEN {"all", "pending", "completed"}
                              ELSE {"all", "pending", "done"})
  /\ filter' = f
  /\ todos' = render(todos, f).todos
  /\ displayed' = render(todos, f).displayed
  /\ UNCHANGED <<app, engine, opens, store, uuids, now, dbError, text, ops, last>>

\* a render with no state change in between
Rerender ==
  /\ running
  /\ todos' = render(todos, filter).todos
  /\ displayed' = render(todos, filter).displayed
  /\ last' = Event("render")
  /\ UNCHANGED <<app, engine, opens, store, uuids, now, dbError, filter, text, ops>>

\* AddTodoForm.handlePress on a blank text: the early return
PressBlank ==
  /\ running
  /\ handlePressReturnsEarly(text)
  /\ last' = Event("blank")
  /\ UNCHANGED <<app, engine, opens, store, uuids, now, todos, dbError, filter,
                 text, displayed, ops>>

\* handlePress in index.tsx on the text t: Index.addTodo runs to its end,
\* then setText("")
handlePressMemory(t) ==
  /\ app = "memory"
  /\ ~handlePressReturnsEarly(t)
  /\ Len(todos) < MaxTodos + 1
  /\ LET next == addTodoMemory(todos, t, -(uuids + 1))
     IN  /\ todos' = render(next, filter).todos
         /\ displayed' = render(next, filter).displayed
  /\ uuids' = uuids + 1
  /\ text' = <<>>
  /\ last' = [Event("add") EXCEPT !.alone = TRUE, !.ok = TRUE, !.sync = TRUE]
  /\ UNCHANGED <<app, engine, opens, store, now, dbError, filter, ops>>

\* handlePress in part_000 on the text t: TodoList.addTodo runs up to its
\* first await (addTodoToDB is called), then setText("").  Two gestures of
\* the user are more than a millisecond apart.
handlePressSqlite(t) ==
  /\ app = "sqlite" /\ opens > 0
  /\ ~handlePressReturnsEarly(t)
  /\ Len(ops) < MaxOps
  /\ Len(todos) + addsInFlight < MaxTodos
  /\ now < Len(Placeholders(0)) + 1 + MaxClock
  /\ now' = now + 1
  /\ ops' = started(NewOp("add", "write", t, 0, "none", todos = store.rows))
  /\ text' = <<>>
  /\ UNCHANGED <<app, engine, opens, store, uuids, todos, dbError, filter,
                 displayed, last>>

\* onSubmitEditing={handlePress} with the text the field holds
PressMemory == handlePressMemory(text)

PressSqlite == handlePressSqlite(text)

\* The user types t into the empty field and submits it: setText(t), then
\* handlePress.  Nothing but handlePress reads the field.
SubmitMemory(t) == text = <<>> /\ handlePressMemory(t)

SubmitSqlite(t) == text = <<>> /\ handlePressSqlite(t)

\* ListItem in index.tsx: the button is rendered for a pending task only;
\* Index.toggleTodo runs to its end.
ToggleMemory(k) ==
  /\ app = "memory"
  /\ k \in DOMAIN displayed
  /\ ~displayed[k].done
  /\ LET next == toggleMap(todos, displayed[k].id)
     IN  /\ todos' = render(next, filter).todos
         /\ displayed' = render(next, filter).displayed
  /\ last' = [Event("toggle") EXCEPT !.id = displayed[k].id,
                 !.was = shown(displayed[k].done), !.alone = TRUE, !.ok = TRUE,
                 !.sync = TRUE]
  /\ UNCHANGED <<app, engine, opens, store, uuids, now, dbError, filter, text, ops>>

\* ListItem in part_000: a swipe or a button of a displayed task calls
\* TodoList.toggleTodo, which runs up to its first await.
ToggleSqlite(k) ==
  /\ app = "sqlite" /\ opens > 0
  /\ k \in DOMAIN displayed
  /\ Len(ops) < MaxOps
  /\ LET item == displayed[k]
         held == \E j \in DOMAIN store.rows :
                    store.rows[j].id = item.id /\ store.rows[j].done = item.done
     IN  ops' = started(NewOp("toggle", "write", <<>>, item.id, shown(item.done), held))
  /\ now < Len(Placeholders(0)) + 1 + MaxClock
  /\ now' = now + 1
  /\ UNCHANGED <<app, engine, opens, store, uuids, todos, dbError, filter,
                 text, displayed, last>>

\* the store executes the write of call i
Write(i) ==
  /\ i \in DOMAIN ops
  /\ ops[i].pc = "write"
  /\ IF ops[i].kind = "add"
     THEN /\ store' = addTodoToDB(store, ops[i].text, -(uuids + 1), now)
          /\ uuids' = uuids + 1
          /\ ops' = [ops EXCEPT ![i].pc = "read", ![i].id = -(uuids + 1)]
     ELSE /\ store' = toggleTodoStatus(store, ops[i].id)
          /\ uuids' = uuids
          /\ ops' = [ops EXCEPT ![i].pc = "read"]
  /\ UNCHANGED <<app, engine, opens, now, todos, dbError, filter, text,
                 displayed, last>>

\* the store executes the read-all of call i
Read(i) ==
  /\ i \in DOMAIN ops
  /\ ops[i].pc = "read"
  /\ ops' = [ops EXCEPT ![i].pc = "update", ![i].result = getAllTodos(store)]
  /\ UNCHANGED <<app, engine, opens, store, uuids, now, todos, dbError, filter,
                 text, displayed, last>>

\* call i resumes after its last await: setTodos(result); setDbError(null)
Return(i) ==
  /\ i \in DOMAIN ops
  /\ ops[i].pc = "update"
  /\ LET next == refreshed(todos, ops[i].result)
     IN  /\ todos' = render(next, filter).todos
         /\ displayed' = render(next, filter).displayed
  /\ dbError' = NULL
  /\ ops' = RemoveAt(ops, i)
  /\ last' = Returned(ops[i], TRUE)
  /\ UNCHANGED <<app, engine, opens, store, uuids, now, filter, text>>

\* the awaited persistence call of call i throws: the catch block runs
Throw(i) ==
  /\ i \in DOMAIN ops
  /\ ops[i].pc \in {"write", "read"}
  /\ LET next == CASE ops[i].kind = "load" -> Placeholders(now)
                   [] ops[i].kind = "add" -> addFallback(todos, ops[i].text, now)
                   [] OTHER -> toggleMap(todos, ops[i].id)
     IN  /\ todos' = render(next, filter).todos
         /\ displayed' = render(next, filter).displayed
  /\ dbError' = CASE ops[i].kind = "load" -> "Erro ao carregar tarefas"
                  [] ops[i].kind = "add" -> "Erro ao adicionar tarefa"
                  [] OTHER -> "Erro ao atualizar tarefa"
  /\ ops' = RemoveAt(ops, i)
  /\ last' = Returned(ops[i], FALSE)
  /\ UNCHANGED <<app, engine, opens, store, uuids, now, filter, text>>

Next ==
  \/ OpenDatabase
  \/ \E t \in Inputs : SetText(t)
  \/ \E f \in {"all", "pending", "done", "completed"} : SetFilter(f)
  \/ Rerender
  \/ PressBlank
  \/ PressMemory
  \/ PressSqlite
  \/ \E k \in 1..(MaxTodos + 2) : ToggleMemory(k)
  \/ \E k \in 1..(MaxTodos + 2) : ToggleSqlite(k)
  \/ \E i \in 1..MaxOps : Write(i)
  \/ \E i \in 1..MaxOps : Read(i)
  \/ \E i \in 1..MaxOps : Return(i)
  \/ \E i \in 1..MaxOps : Throw(i)

Spec == Init /\ [][Next]_vars

\* The task store on its own: the database is opened once, the filter stays
\* "all", the field is typed into and submitted in one step, and no render
\* happens without a state change.
NextStore ==
  \/ OpenDatabase /\ opens = 0
  \/ \E t \in Inputs : SubmitMemory(t)
  \/ \E t \in Inputs : SubmitSqlite(t)
  \/ \E k \in 1..(MaxTodos + 2) : ToggleMemory(k)
  \/ \E k \in 1..(MaxTodos + 2) : ToggleSqlite(k)
  \/ \E i \in 1..MaxOps : Write(i)
  \/ \E i \in 1..MaxOps : Read(i)
  \/ \E i \in 1..MaxOps : Return(i)
  \/ \E i \in 1..MaxOps : Throw(i)

InitStore == Init /\ engine = "prev,next"

SpecStore == InitStore /\ [][NextStore]_vars

\* The database opened again and again: a call starts when none is in flight.
NextOpen ==
  \/ OpenDatabase
  \/ \E t \in Inputs : SubmitSqlite(t) /\ ops = <<>>
  \/ \E k \in 1..(MaxTodos + 2) : ToggleSqlite(k) /\ ops = <<>>
  \/ \E i \in 1..MaxOps : Write(i)
  \/ \E i \in 1..MaxOps : Read(i)
  \/ \E i \in 1..MaxOps : Return(i)
  \/ \E i \in 1..MaxOps : Throw(i)

InitOpen == Init /\ app = "sqlite" /\ engine = "prev,next"

SpecOpen == InitOpen /\ [][NextOpen]_vars

\* The form, the filter and the list: every gesture and every render, with
\* the database opened once and a call started when none is in flight.
NextView ==
  \/ OpenDatabase /\ opens = 0
  \/ \E t \in Inputs : SetText(t)
  \/ \E f \in {"all", "pending", "done", "completed"} : SetFilter(f)
  \/ Rerender
  \/ PressBlank
  \/ PressMemory
  \/ PressSqlite /\ ops = <<>>
  \/ \E k \in 1..(MaxTodos + 2) : ToggleMemory(k)
  \/ \E k \in 1..(MaxTodos + 2) : ToggleSqlite(k) /\ ops = <<>>
  \/ \E i \in 1..MaxOps : Write(i)
  \/ \E i \in 1..MaxOps : Read(i)
  \/ \E i \in 1..MaxOps : Return(i)
  \/ \E i \in 1..MaxOps : Throw(i)

SpecView == Init /\ [][NextView]_vars

-----------------------------------------------------------------------------
(* Vocabulary of the properties *)

\* call i returns in this step, through its try block or its catch block
returns(i) == i \in DOMAIN ops /\ ops' = RemoveAt(ops, i)

resumed(i) == ops[i].pc = "update"     \* both awaits were fulfilled

thrown(i) == ops[i].pc # "update"      \* an awaited call threw

TextOf(todo) == IF "value" \in DOMAIN todo THEN todo.value ELSE todo.text

IsBlank(t) == \A k \in DOMAIN t : t[k] = " "

Count(s, x) == Cardinality({k \in DOMAIN s : s[k] = x})

IsPermutation(s, t) ==
  /\ Len(s) = Len(t)
  /\ \A x \in Range(s) \cup Range(t) : Count(s, x) = Count(t, x)

\* the task with this id is on the list and shows this value of done
Shows(ts, id, was) ==
  /\ \E k \in DOMAIN ts : ts[k].id = id
  /\ \A k \in DOMAIN ts : ts[k].id = id => shown(ts[k].done) = was

\* ts holds a task with the id and the text of todo
Keeps(ts, todo) ==
  \E k \in DOMAIN ts : ts[k].id = todo.id /\ TextOf(ts[k]) = TextOf(todo)

\* the task that the add call i put on the list ts: the row it wrote when it
\* resumed, the last element when it fell back
Added(ts, i) ==
  IF resumed(i)
  THEN \E k \in DOMAIN ts :
          ts[k].id = ops[i].id /\ ts[k].text = ops[i].text /\ ~ts[k].done
  ELSE ts # <<>> /\ ts[Len(ts)].text = ops[i].text /\ ~ts[Len(ts)].done

\* Index.addTodo ran in this step (it draws a UUID)
addedInMemory == app = "memory" /\ uuids' = uuids + 1

AddedInMemory ==
  /\ Len(todos') = Len(todos) + 1
  /\ \E k \in DOMAIN todos' :
        /\ todos'[k].id = -uuids'
        /\ ~todos'[k].done
        /\ ~IsBlank(todos'[k].value)

-----------------------------------------------------------------------------
(* C1 *)

\* C1 as stated, for a call that had the store to itself: whatever the list
\* held at the submission, once the add has returned the list is one task
\* longer than it was then and the added task is pending.
C1_AddGrowsByOne ==
  [][ /\ \A i \in DOMAIN ops :
            returns(i) /\ ops[i].kind = "add" /\ ops[i].alone
            => Len(todos') = ops[i].n0 + 1 /\ Added(todos', i)
      /\ addedInMemory => AddedInMemory ]_vars

\* C1, amended: with no other call in flight during the add, the list is one
\* task longer than at the submission and the added task is pending when the
\* add falls back, or when the list held exactly the store's tasks at the
\* submission; in index.tsx always.
C1_AddGrowsByOneInSync ==
  [][ /\ \A i \in DOMAIN ops :
            /\ returns(i) /\ ops[i].kind = "add" /\ ops[i].alone
            /\ thrown(i) \/ ops[i].sync0
            => Len(todos') = ops[i].n0 + 1 /\ Added(todos', i)
      /\ addedInMemory => AddedInMemory ]_vars

\* an add resumed alone on a list that held the store's tasks, now two
C1_Witness ==
  /\ app = "sqlite"
  /\ last.ev = "add" /\ last.ok /\ last.alone /\ last.sync
  /\ Len(todos) = 2

-----------------------------------------------------------------------------
(* C2 *)

\* C2 as stated: two toggles of one id in a row, each resumed or thrown,
\* leave the task showing the value of done it showed before the first.
C2_ToggleTwice ==
  [][ \A i \in DOMAIN ops :
         returns(i) /\ inARow(ops[i]) => Shows(todos', ops[i].id, last.was) ]_vars

\* C2, amended: it holds when both toggles fall back, and, for a task that
\* showed the value of done the store holds for its id, unless the first
\* falls back and the second resumes.
C2_ToggleTwiceInSync ==
  [][ \A i \in DOMAIN ops :
         /\ returns(i) /\ inARow(ops[i])
         /\ \/ ~last.ok /\ thrown(i)
            \/ last.sync /\ ~(~last.ok /\ resumed(i))
         => Shows(todos', ops[i].id, last.was) ]_vars

\* two toggles of a stored task in a row, both resumed
C2_Witness ==
  /\ last.ev = "toggle" /\ last.after = "ok" /\ last.ok /\ last.sync
  /\ \E k \in DOMAIN todos : todos[k].id = last.id

-----------------------------------------------------------------------------
(* C3 *)

\* C3: when a persistence call of the add throws, the list afterwards is the
\* list before with one task appended, which carries the submitted text and
\* is pending, and dbError is not null.
C3_AddFallsBack ==
  [][ \A i \in DOMAIN ops :
         returns(i) /\ ops[i].kind = "add" /\ thrown(i)
         => /\ Len(todos') = Len(todos) + 1
            /\ SubSeq(todos', 1, Len(todos)) = todos
            /\ todos'[Len(todos')].text = ops[i].text
            /\ ~todos'[Len(todos')].done
            /\ dbError' # NULL ]_vars

\* an add fell back on a list that was not empty
C3_Witness ==
  /\ last.ev = "add" /\ ~last.ok
  /\ Len(todos) >= 2
  /\ dbError = "Erro ao adicionar tarefa"

-----------------------------------------------------------------------------
(* C4 *)

\* handlePress ran in this step: it returned early, or it called the handler
pressed ==
  \/ last'.ev = "blank" /\ last.ev # "blank"
  \/ addedInMemory
  \/ Len(ops') = Len(ops) + 1 /\ ops'[Len(ops')].kind = "add"

\* C4: a submission while the field is empty or blank calls no handler (the
\* list, the store and the calls in flight are unchanged) and leaves the field
\* as it is.
C4_BlankSubmitIsNoOp ==
  [][ pressed /\ IsBlank(text)
      => UNCHANGED <<text, todos, displayed, store, ops, uuids, dbError>> ]_vars

\* a blank, non-empty text was submitted and is still in the field
C4_Witness == last.ev = "blank" /\ text = <<" ">> /\ todos # <<>>

-----------------------------------------------------------------------------
(* C5 *)

Pending(todo) == ~todo.done

Done(todo) == todo.done

\* C5: the displayed list holds exactly the tasks of the collection that the
\* filter mode selects, each as often as the collection holds it.
C5_DisplayedIsFiltered ==
  /\ filter = "pending" => IsPermutation(displayed, SelectSeq(todos, Pending))
  /\ filter \in {"done", "completed"} => IsPermutation(displayed, SelectSeq(todos, Done))
  /\ filter = "all" => IsPermutation(displayed, todos)

\* a mixed collection displayed under Pending
C5_Witness ==
  /\ filter = "pending"
  /\ displayed # <<>>
  /\ \E k \in DOMAIN todos : todos[k].done

-----------------------------------------------------------------------------
(* C6 *)

\* C6: a run of the migration on a file that was migrated before leaves the
\* stored version and the rows of the table as they are.
C6_MigrationIdempotent ==
  [][ opens' = opens + 1 /\ opens >= 1
      => /\ store'.user_version = store.user_version
         /\ store'.hasTable = store.hasTable
         /\ store'.rows = store.rows ]_vars

\* the database was opened a second time with a row in the table
C6_Witness == opens = 2 /\ store.rows # <<>>

-----------------------------------------------------------------------------
(* C7 *)

\* C7: a render with no change of the collection or of the filter since the
\* last one hands FlatList the same sequence again.
C7_RenderRepeats ==
  [][ last'.ev = "render" /\ filter' = filter => displayed' = displayed ]_vars

\* the persisted list was rendered again while it displays two tasks of equal
\* createdAt, on an engine whose sort reverses such a pair
C7_Witness ==
  /\ app = "sqlite" /\ engine = "next,prev"
  /\ last.ev = "render"
  /\ \E j, k \in DOMAIN displayed :
        j # k /\ displayed[j].createdAt = displayed[k].createdAt

-----------------------------------------------------------------------------
(* C8 *)

-----------------------------------------------------------------------------
(* C9 *)

IsPlaceholder(todo) == \E k \in DOMAIN Placeholders(0) : Placeholders(0)[k].id = todo.id

\* C9 as stated, for calls that had the store to themselves: every task on
\* the list that is not a placeholder is on the list, with its id and text,
\* after the create or toggle that returns.
C9_NeverDeleted ==
  [][ /\ \A i \in DOMAIN ops :
            returns(i) /\ ops[i].alone /\ ops[i].kind \in {"add", "toggle"}
            => \A k \in DOMAIN todos : ~IsPlaceholder(todos[k]) => Keeps(todos', todos[k])
      /\ app = "memory" => \A k \in DOMAIN todos : Keeps(todos', todos[k]) ]_vars

\* C9, amended: a create or toggle that falls back keeps every task of the
\* list in its place with its id and text; one that resumes with no other
\* call in flight keeps every task whose id the store holds; index.tsx keeps
\* every task.
C9_KeptUnlessRefreshed ==
  [][ /\ \A i \in DOMAIN ops :
            returns(i) /\ ops[i].kind \in {"add", "toggle"}
            => /\ thrown(i) =>
                    /\ Len(todos') >= Len(todos)
                    /\ \A k \in DOMAIN todos :
                          /\ todos'[k].id = todos[k].id
                          /\ todos'[k].text = todos[k].text
               /\ resumed(i) /\ ops[i].alone =>
                    \A k \in DOMAIN todos :
                       (\E j \in DOMAIN store.rows : store.rows[j].id = todos[k].id)
                       => Keeps(todos', todos[k])
      /\ app = "memory" => \A k \in DOMAIN todos : Keeps(todos', todos[k]) ]_vars

\* a toggle fell back on a list that holds a task added by a fallen-back add
C9_Witness ==
  /\ last.ev = "toggle" /\ ~last.ok
  /\ \E k \in DOMAIN todos : todos[k].id > Len(Placeholders(0))

-----------------------------------------------------------------------------
(* C10 *)

\* C10: the ids of the tasks on the list are pairwise distinct.
C10_UniqueIds ==
  \A j, k \in DOMAIN todos : j # k => todos[j].id # todos[k].id

-----------------------------------------------------------------------------
(* C11 *)

\* C11: two mutations (create and/or toggle) are started before either has
\* finished and both resume after their write and their read-all succeeded;
\* when the second of them runs its state update, whatever the order of the
\* steps was, the list holds the store's tasks.  The call that returned last
\* (last) and the one that returns now (i) were in flight together: neither
\* was alone and no call returned in between.
C11_ConcurrentMutationsConverge ==
  [][ \A i \in DOMAIN ops :
         /\ returns(i) /\ resumed(i) /\ Len(ops) = 1
         /\ ops[i].kind \in {"add", "toggle"} /\ ~ops[i].alone
         /\ last.ev \in {"add", "toggle"} /\ last.ok /\ ~last.alone
         => todos' = store'.rows ]_vars

=============================================================================
